---- MODULE Spec2Model ----
(***************************************************************************)
(* Model of src-tauri/src/lib.rs: the BLE connectivity monitor             *)
(* (ble_monitoring), the configuration writer (update_led_config) and the  *)
(* startup sequence (run), coordinating through the ESP_PERIPHERAL slot,   *)
(* a tokio RwLock<Option<Peripheral>>.                                      *)
(*                                                                         *)
(* Every awaited call of the radio library (btleplug), of the serializer   *)
(* (bincode) and of the event channel (tauri emit) is an external call:    *)
(* its result is drawn with \E from the results its type allows.           *)
(***************************************************************************)
EXTENDS Integers, Sequences, FiniteSets, TLC

\* ---------------------------------------------------------------- bounds
NumPeripherals == 5     \* peripheral handles the adapter may know
MaxScan == 2            \* longest list one ADAPTER.peripherals() call returns
NumWriters == 1         \* concurrent update_led_config invocations

\* ------------------------------------------------------------- constants
None == 0               \* Option::None of the slot
Monitor == 0            \* lock-holder id of the ble_monitoring task
ESP_BLE_NAME == "esp-bluedroid LED Example"
UnknownName == "(peripheral name unknown)"

Peripherals == 1..NumPeripherals
CallSlots(n) == 1..n

\* What the devices in range advertise (PeripheralProperties.local_name).
\* "" stands for local_name = None.
AdvertisedNames ==
    << "esp-bluedroid LED Example",
       "esp-bluedroid LED Example",
       "ESP-Bluedroid LED Example",
       "",
       "esp-bluedroid LED Example " >>

AdvertisedName(p) == AdvertisedNames[((p - 1) % Len(AdvertisedNames)) + 1]

\* properties.unwrap().local_name.unwrap_or(String::from("(peripheral name unknown)"))
LocalName(p) == IF AdvertisedName(p) = "" THEN UnknownName ELSE AdvertisedName(p)

\* Mutant of NameMatches: the names are compared trimmed and without case.
NameMatchesLoosely(p) ==
    LocalName(p) \in { ESP_BLE_NAME, "ESP-Bluedroid LED Example",
                       "esp-bluedroid LED Example " }

\* local_name == ESP_BLE_NAME
NameMatches(p) == LocalName(p) = ESP_BLE_NAME

\* Vec<Peripheral> results of ADAPTER.peripherals(): distinct handles.
RECURSIVE SeqsUpTo(_)
SeqsUpTo(n) ==
    IF n = 0 THEN { <<>> }
    ELSE LET shorter == SeqsUpTo(n - 1)
         IN  shorter \cup
             { Append(s, p) : s \in { t \in shorter : Len(t) = n - 1 },
                              p \in Peripherals }

Range(s) == { s[i] : i \in 1..Len(s) }

ScanResults == { s \in SeqsUpTo(MaxScan) : Cardinality(Range(s)) = Len(s) }

\* ------------------------------------------------- LedConfiguration, bincode
\* f32 values the UI sends, as their little-endian IEEE-754 bytes.
F32Bytes(x) ==
    CASE x = "0.0" -> << 0, 0, 0, 0 >>
      [] x = "1.0" -> << 0, 0, 128, 63 >>
      [] x = "0.5" -> << 0, 0, 0, 63 >>

BoolByte(b) == IF b THEN << 1 >> ELSE << 0 >>

LedConfigurations ==
    { [pwm_duty |-> "0.5", pwm_frequency |-> "1.0", enabled |-> TRUE],
      [pwm_duty |-> "0.0", pwm_frequency |-> "0.0", enabled |-> FALSE] }

NoConfig == [pwm_duty |-> "0.0", pwm_frequency |-> "0.0", enabled |-> FALSE]

\* bincode::serde::encode_to_vec(led_config, bincode::config::standard())
EncodeToVec(c) ==
    F32Bytes(c.pwm_duty) \o F32Bytes(c.pwm_frequency) \o BoolByte(c.enabled)

VARIABLES
    ESP_PERIPHERAL,   \* the slot: None or a peripheral handle
    rwlock,           \* the slot's RwLock: [readers, writers, queue]
    APP_HANDLE,       \* TRUE when Some(AppHandle)
    mpc,              \* position of ble_monitoring
    mres,             \* how ble_monitoring ended: "running", "Err:..", "panic:.."
    peripherals,      \* local `peripherals` of the current scan
    idx,              \* position of the for loop in `peripherals`
    found,            \* local `found`
    properties,       \* local `properties`: "None" or "Some" (of the peripheral)
    is_connected,     \* local `is_connected` (liveness or per-peripheral flag)
    wpc,              \* position of each update_led_config call
    esp,              \* handle each writer read from the slot
    led_config,       \* argument of each call
    wops,             \* what each call did so far
    wres,             \* how each call ended: "none", "returned", "panicked"
    cycle,            \* log of the current monitor cycle
    history           \* kinds of the two cycles before the current one

vars == << ESP_PERIPHERAL, rwlock, APP_HANDLE, mpc, mres, peripherals, idx,
           found, properties, is_connected, wpc, esp, led_config, wops, wres, cycle,
           history >>

monVars == << mpc, mres, peripherals, idx, found, properties, is_connected,
             cycle, history >>
scanVars == << peripherals, idx, found, properties >>
wrVars == << wpc, esp, led_config, wops, wres >>

\* ------------------------------------------------------- tokio::sync::RwLock
\* tokio's RwLock queues its waiters first-in first-out: a request that
\* cannot be served waits, and every later request waits behind it.
FreeLock == [readers |-> {}, writers |-> {}, queue |-> << >>]

RECURSIVE Grant(_)
Grant(l) ==
    IF l.queue = << >> THEN l
    ELSE LET h == Head(l.queue)
         IN  IF h.mode = "read" /\ l.writers = {}
             THEN Grant([l EXCEPT !.readers = @ \cup {h.proc},
                                  !.queue = Tail(@)])
             ELSE IF h.mode = "write" /\ l.writers = {} /\ l.readers = {}
             THEN [l EXCEPT !.writers = {h.proc}, !.queue = Tail(@)]
             ELSE l

\* Mutant of Request: a read lock is handed out whenever no writer holds the
\* lock, also past a queued write request (a read-preferring lock).
RequestReadersFirst(l, p, mode) ==
    IF mode = "read" /\ l.writers = {}
    THEN [l EXCEPT !.readers = @ \cup {p}]
    ELSE Grant([l EXCEPT !.queue = Append(@, [proc |-> p, mode |-> mode])])

\* ESP_PERIPHERAL.read() / ESP_PERIPHERAL.write(): the call is queued and
\* served at once when the lock allows it.
Request(l, p, mode) ==
    Grant([l EXCEPT !.queue = Append(@, [proc |-> p, mode |-> mode])])

\* dropping a guard
Release(l, p) ==
    Grant([l EXCEPT !.readers = @ \ {p}, !.writers = @ \ {p}])

HoldsRead(p) == p \in rwlock.readers
HoldsWrite(p) == p \in rwlock.writers

\* --------------------------------------------------------------- cycle log
NewCycle(start) ==
    [start |-> start,        \* "BOUND" or "UNBOUND": what line 45 found
     scanned |-> FALSE,      \* start_scan was called
     check |-> "none",       \* last liveness / post-attempt flag: "true", "false"
     emitted |-> << >>,      \* events emitted in this cycle
     tried |-> {},           \* peripherals connect() was called on
     failed |-> {},          \* peripherals whose connect() failed
     up |-> {},              \* peripherals whose post-attempt flag was true
     stored |-> << >>]       \* handles written to the slot, in order

Flag(b) == IF b THEN "true" ELSE "false"

Matches(s) == { i \in 1..Len(s) : NameMatches(s[i]) }

\* The kind of a finished cycle.
CycleKind(c, scan) ==
    IF c.start = "BOUND"
    THEN (IF c.check = "true" THEN "live" ELSE "dead")
    ELSE IF Matches(scan) = {} THEN "miss"
    ELSE IF /\ Cardinality(Matches(scan)) = 1
            /\ c.tried = { scan[i] : i \in Matches(scan) }
            /\ c.failed = {}
         THEN (IF c.check = "true" THEN "bind" ELSE "bind_stale")
    ELSE "scan"

\* The kinds of the two cycles before the current one.
NoHistory == [last |-> "none", before |-> "none"]

Remember(h, k) == [last |-> k, before |-> h.last]

\* -------------------------------------------------------------------- Init
\* The state at the entry of run(): the lazy statics are built, the slot and
\* the sink handle are None, nothing is spawned.
\* The update_led_config invocations the front end has room for.
Writers == DOMAIN wpc

InitFor(n) ==
    /\ ESP_PERIPHERAL = None
    /\ rwlock = FreeLock
    /\ APP_HANDLE = FALSE
    /\ mpc = "unspawned"
    /\ mres = "running"
    /\ peripherals = << >>
    /\ idx = 0
    /\ found = FALSE
    /\ properties = "None"
    /\ is_connected = FALSE
    /\ wpc = [w \in CallSlots(n) |-> "idle"]
    /\ esp = [w \in CallSlots(n) |-> None]
    /\ led_config = [w \in CallSlots(n) |-> NoConfig]
    /\ wops = [w \in CallSlots(n) |-> << >>]
    /\ wres = [w \in CallSlots(n) |-> "none"]
    /\ cycle = NewCycle("none")
    /\ history = NoHistory

Init == InitFor(NumWriters)

\* --------------------------------------------------------------------- run
\* *APP_HANDLE.write().await = Some(app.handle().clone());
SetupStoreHandle ==
    /\ mpc = "unspawned"
    /\ ~APP_HANDLE
    /\ APP_HANDLE' = TRUE
    /\ UNCHANGED << ESP_PERIPHERAL, rwlock, monVars, wrVars >>

\* Mutant of SpawnMonitor: the task is spawned without waiting for the
\* handle to be stored.
SpawnMonitorEarly ==
    /\ mpc = "unspawned"
    /\ mpc' = "sleep"
    /\ UNCHANGED << ESP_PERIPHERAL, rwlock, APP_HANDLE, mres, scanVars,
                    is_connected, cycle, history, wrVars >>

\* TOKIO_RUNTIME.spawn(ble_monitoring());
SpawnMonitor ==
    /\ mpc = "unspawned"
    /\ APP_HANDLE
    /\ mpc' = "sleep"
    /\ UNCHANGED << ESP_PERIPHERAL, rwlock, APP_HANDLE, mres, scanVars,
                    is_connected, cycle, history, wrVars >>

\* ---------------------------------------------------------- ble_monitoring
\* `?` on an Err and a panicking unwrap/expect both end the task for good.
Stop(reason) ==
    /\ mpc' = "stopped"
    /\ mres' = reason

\* The loop body ran to its end (or to `continue`): back to the sleep of line 43.
EndCycle(c) ==
    /\ mpc' = "sleep"
    /\ cycle' = c
    /\ history' = history

\* Lines 43-45: sleep, then ESP_PERIPHERAL.read().await.is_some(); the guard is
\* a temporary of the condition and is dropped before the branch is entered.
MonitorPoll ==
    /\ mpc = "sleep"
    /\ Request(rwlock, Monitor, "read").readers = rwlock.readers \cup {Monitor}
    /\ IF ESP_PERIPHERAL # None
       THEN /\ mpc' = "liveness"
            /\ cycle' = NewCycle("BOUND")
       ELSE /\ mpc' = "adapter_info"
            /\ cycle' = NewCycle("UNBOUND")
    /\ peripherals' = << >>
    /\ idx' = 0
    /\ found' = FALSE
    /\ properties' = "None"
    /\ history' = IF cycle.start = "none" THEN history
                  ELSE Remember(history, CycleKind(cycle, peripherals))
    /\ UNCHANGED << ESP_PERIPHERAL, rwlock, APP_HANDLE, mres, is_connected,
                    wrVars >>

\* Lines 48-52: a second read().await, then .as_ref().unwrap(); the guard lives
\* until the end of the let statement, across the is_connected() await.
MonitorLivenessLock ==
    /\ mpc = "liveness"
    /\ Request(rwlock, Monitor, "read").readers = rwlock.readers \cup {Monitor}
    /\ IF ESP_PERIPHERAL = None
       THEN /\ Stop("panic:slot_unwrap")
            /\ UNCHANGED rwlock
       ELSE /\ rwlock' = Request(rwlock, Monitor, "read")
            /\ mpc' = "liveness_wait"
            /\ UNCHANGED mres
    /\ UNCHANGED << ESP_PERIPHERAL, APP_HANDLE, scanVars, is_connected, cycle,
                    history, wrVars >>

\* Mutant of MonitorLiveness: after a false liveness check the event is sent
\* with the slot still set (line 66 is skipped).
MonitorLivenessEmitsUncleared ==
    /\ mpc = "liveness_wait"
    /\ HoldsRead(Monitor)
    /\ rwlock' = Release(rwlock, Monitor)
    /\ \E r \in {"true", "false", "Err"} :
         CASE r = "Err" ->
                /\ Stop("Err:is_connected")
                /\ UNCHANGED << is_connected, cycle >>
           [] r = "true" ->
                /\ mpc' = "bound_emit_true"
                /\ is_connected' = TRUE
                /\ cycle' = [cycle EXCEPT !.check = "true"]
                /\ UNCHANGED mres
           [] r = "false" ->
                /\ mpc' = "bound_emit_false"
                /\ is_connected' = FALSE
                /\ cycle' = [cycle EXCEPT !.check = "false"]
                /\ UNCHANGED mres
    /\ UNCHANGED << ESP_PERIPHERAL, APP_HANDLE, scanVars, history, wrVars >>

\* Lines 53-56, 64: .is_connected().await? on the bound handle.
MonitorLiveness ==
    /\ mpc = "liveness_wait"
    /\ HoldsRead(Monitor)
    /\ rwlock' = Release(rwlock, Monitor)
    /\ \E r \in {"true", "false", "Err"} :
         CASE r = "Err" ->
                /\ Stop("Err:is_connected")
                /\ UNCHANGED << is_connected, cycle >>
           [] r = "true" ->
                /\ mpc' = "bound_emit_true"
                /\ is_connected' = TRUE
                /\ cycle' = [cycle EXCEPT !.check = "true"]
                /\ UNCHANGED mres
           [] r = "false" ->
                /\ mpc' = "bound_clear_lock"
                /\ is_connected' = FALSE
                /\ cycle' = [cycle EXCEPT !.check = "false"]
                /\ UNCHANGED mres
    /\ UNCHANGED << ESP_PERIPHERAL, APP_HANDLE, scanVars, history, wrVars >>

\* APP_HANDLE.read().await.as_ref().unwrap().emit("connection-status", b)?
\* The outcome of one emit, for the cycle log c: the next log and how the
\* task goes on ("ok", or the reason it stops).
EmitOutcomes(c, b) ==
    IF ~APP_HANDLE
    THEN { [log |-> c, end |-> "panic:app_handle_unwrap"] }
    ELSE { [log |-> [c EXCEPT !.emitted = Append(@, b)], end |-> "ok"],
           [log |-> c, end |-> "Err:emit"] }

\* Mutant of MonitorBoundEmitTrue: the `continue` of line 76 is missing, the
\* cycle falls through to the scan.
MonitorBoundEmitTrueFallsThrough ==
    /\ mpc = "bound_emit_true"
    /\ \E o \in EmitOutcomes(cycle, TRUE) :
         IF o.end = "ok"
         THEN mpc' = "adapter_info" /\ cycle' = o.log /\ UNCHANGED mres
         ELSE Stop(o.end) /\ UNCHANGED cycle
    /\ UNCHANGED << ESP_PERIPHERAL, rwlock, APP_HANDLE, scanVars, is_connected,
                    history, wrVars >>

\* Lines 57-63, 76: emit true, continue.
MonitorBoundEmitTrue ==
    /\ mpc = "bound_emit_true"
    /\ \E o \in EmitOutcomes(cycle, TRUE) :
         IF o.end = "ok"
         THEN EndCycle(o.log) /\ UNCHANGED mres
         ELSE Stop(o.end) /\ UNCHANGED << cycle, history >>
    /\ UNCHANGED << ESP_PERIPHERAL, rwlock, APP_HANDLE, scanVars, is_connected,
                    wrVars >>

\* Line 66: ESP_PERIPHERAL.write() is called.
MonitorBoundClearLock ==
    /\ mpc = "bound_clear_lock"
    /\ rwlock' = Request(rwlock, Monitor, "write")
    /\ mpc' = "bound_clear"
    /\ UNCHANGED << ESP_PERIPHERAL, APP_HANDLE, mres, scanVars, is_connected,
                    cycle, history, wrVars >>

\* Mutant of MonitorBoundClear: the disconnect is reported, the slot is kept.
MonitorBoundClearKeepsSlot ==
    /\ mpc = "bound_clear"
    /\ HoldsWrite(Monitor)
    /\ rwlock' = Release(rwlock, Monitor)
    /\ mpc' = "bound_emit_false"
    /\ UNCHANGED << ESP_PERIPHERAL, APP_HANDLE, mres, scanVars, is_connected,
                    cycle, history, wrVars >>

\* Line 66: the write guard is obtained, the slot is set to None, the guard
\* is dropped.
MonitorBoundClear ==
    /\ mpc = "bound_clear"
    /\ HoldsWrite(Monitor)
    /\ ESP_PERIPHERAL' = None
    /\ rwlock' = Release(rwlock, Monitor)
    /\ mpc' = "bound_emit_false"
    /\ UNCHANGED << APP_HANDLE, mres, scanVars, is_connected, cycle, history,
                    wrVars >>

\* Lines 68-73, 76: emit false, continue.
MonitorBoundEmitFalse ==
    /\ mpc = "bound_emit_false"
    /\ \E o \in EmitOutcomes(cycle, FALSE) :
         IF o.end = "ok"
         THEN EndCycle(o.log) /\ UNCHANGED mres
         ELSE Stop(o.end) /\ UNCHANGED << cycle, history >>
    /\ UNCHANGED << ESP_PERIPHERAL, rwlock, APP_HANDLE, scanVars, is_connected,
                    wrVars >>

\* Line 79: ADAPTER.adapter_info().await?
MonitorAdapterInfo ==
    /\ mpc = "adapter_info"
    /\ \E ok \in BOOLEAN :
         IF ok THEN mpc' = "start_scan" /\ UNCHANGED mres
         ELSE Stop("Err:adapter_info")
    /\ UNCHANGED << ESP_PERIPHERAL, rwlock, APP_HANDLE, scanVars, is_connected,
                    cycle, history, wrVars >>

\* Lines 80-83: ADAPTER.start_scan(..).await.expect(..)
MonitorStartScan ==
    /\ mpc = "start_scan"
    /\ \E ok \in BOOLEAN :
         IF ok
         THEN /\ mpc' = "peripherals"
              /\ cycle' = [cycle EXCEPT !.scanned = TRUE]
              /\ UNCHANGED mres
         ELSE /\ Stop("panic:start_scan")
              /\ UNCHANGED cycle
    /\ UNCHANGED << ESP_PERIPHERAL, rwlock, APP_HANDLE, scanVars, is_connected,
                    history, wrVars >>

\* Lines 84-87: settle delay, ADAPTER.peripherals().await?, found = false.
MonitorPeripherals ==
    /\ mpc = "peripherals"
    /\ \/ /\ Stop("Err:peripherals")
          /\ UNCHANGED << peripherals, idx, found >>
       \/ /\ \E r \in ScanResults : peripherals' = r
          /\ idx' = 1
          /\ found' = FALSE
          /\ mpc' = "for"
          /\ UNCHANGED mres
    /\ UNCHANGED << ESP_PERIPHERAL, rwlock, APP_HANDLE, properties,
                    is_connected, cycle, history, wrVars >>

\* Mutant of MonitorFor: a scan without a match ends the cycle at once.
MonitorForSilentMiss ==
    /\ mpc = "for"
    /\ IF idx <= Len(peripherals)
       THEN mpc' = "properties" /\ UNCHANGED << cycle, history >>
       ELSE EndCycle(cycle)
    /\ UNCHANGED << ESP_PERIPHERAL, rwlock, APP_HANDLE, mres, scanVars,
                    is_connected, wrVars >>

\* Lines 89, 125-127, 138: the next peripheral of the for loop; after the
\* last one, `if !found`.
MonitorFor ==
    /\ mpc = "for"
    /\ IF idx <= Len(peripherals)
       THEN mpc' = "properties" /\ UNCHANGED << cycle, history >>
       ELSE IF ~found
       THEN mpc' = "miss_clear_lock" /\ UNCHANGED << cycle, history >>
       ELSE EndCycle(cycle)
    /\ UNCHANGED << ESP_PERIPHERAL, rwlock, APP_HANDLE, mres, scanVars,
                    is_connected, wrVars >>

\* Mutant of MonitorProperties: an Err is recorded and the peripheral is
\* skipped, as for a failed connect.
MonitorPropertiesSkipsErr ==
    /\ mpc = "properties"
    /\ \E r \in {"Some", "None", "Err"} :
         IF r = "Err"
         THEN /\ mres' = "Err:properties"
              /\ mpc' = "for"
              /\ idx' = idx + 1
              /\ UNCHANGED properties
         ELSE /\ mpc' = "is_connected"
              /\ properties' = r
              /\ UNCHANGED << mres, idx >>
    /\ UNCHANGED << ESP_PERIPHERAL, rwlock, APP_HANDLE, peripherals, found,
                    is_connected, cycle, history, wrVars >>

\* Line 90: peripheral.properties().await?
MonitorProperties ==
    /\ mpc = "properties"
    /\ \E r \in {"Some", "None", "Err"} :
         IF r = "Err"
         THEN Stop("Err:properties") /\ UNCHANGED properties
         ELSE mpc' = "is_connected" /\ properties' = r /\ UNCHANGED mres
    /\ UNCHANGED << ESP_PERIPHERAL, rwlock, APP_HANDLE, peripherals, idx, found,
                    is_connected, cycle, history, wrVars >>

\* Lines 91-100, 124: peripheral.is_connected().await?, properties.unwrap(),
\* the name test, found = true, and the choice between connecting first and
\* going on with a peripheral that is connected already.
MonitorIsConnected ==
    /\ mpc = "is_connected"
    /\ \E r \in {"true", "false", "Err"} :
         IF r = "Err"
         THEN /\ Stop("Err:is_connected")
              /\ UNCHANGED << is_connected, found, idx >>
         ELSE IF properties = "None"
         THEN /\ Stop("panic:properties_unwrap")
              /\ is_connected' = (r = "true")
              /\ UNCHANGED << found, idx >>
         ELSE /\ is_connected' = (r = "true")
              /\ UNCHANGED mres
              /\ IF NameMatches(peripherals[idx])
                 THEN /\ found' = TRUE
                      /\ mpc' = IF r = "true" THEN "post_check" ELSE "connect"
                      /\ UNCHANGED idx
                 ELSE /\ mpc' = "for"
                      /\ idx' = idx + 1
                      /\ UNCHANGED found
    /\ UNCHANGED << ESP_PERIPHERAL, rwlock, APP_HANDLE, peripherals, properties,
                    cycle, history, wrVars >>

\* Mutant of MonitorConnect: a failed connect is logged and not skipped.
MonitorConnectIgnoresErr ==
    /\ mpc = "connect"
    /\ mpc' = "post_check"
    /\ \E ok \in BOOLEAN :
         cycle' = [cycle EXCEPT
                     !.tried = @ \cup {peripherals[idx]},
                     !.failed = IF ok THEN @ ELSE @ \cup {peripherals[idx]}]
    /\ UNCHANGED << ESP_PERIPHERAL, rwlock, APP_HANDLE, mres, scanVars,
                    is_connected, history, wrVars >>

\* Mutant of MonitorConnect: a failed connect() is propagated with `?`.
MonitorConnectPropagatesErr ==
    /\ mpc = "connect"
    /\ \E ok \in BOOLEAN :
         IF ok
         THEN /\ mpc' = "post_check"
              /\ cycle' = [cycle EXCEPT !.tried = @ \cup {peripherals[idx]}]
              /\ UNCHANGED << idx, mres >>
         ELSE /\ Stop("Err:connect")
              /\ cycle' = [cycle EXCEPT !.tried = @ \cup {peripherals[idx]},
                                        !.failed = @ \cup {peripherals[idx]}]
              /\ UNCHANGED idx
    /\ UNCHANGED << ESP_PERIPHERAL, rwlock, APP_HANDLE, peripherals, found,
                    properties, is_connected, history, wrVars >>

\* Lines 101-105: peripheral.connect().await; on Err log and `continue`.
MonitorConnect ==
    /\ mpc = "connect"
    /\ \E ok \in BOOLEAN :
         IF ok
         THEN /\ mpc' = "post_check"
              /\ cycle' = [cycle EXCEPT !.tried = @ \cup {peripherals[idx]}]
              /\ UNCHANGED idx
         ELSE /\ mpc' = "for"
              /\ idx' = idx + 1
              /\ cycle' = [cycle EXCEPT !.tried = @ \cup {peripherals[idx]},
                                        !.failed = @ \cup {peripherals[idx]}]
    /\ UNCHANGED << ESP_PERIPHERAL, rwlock, APP_HANDLE, mres, peripherals, found,
                    properties, is_connected, history, wrVars >>

\* Line 108: let is_connected = peripheral.is_connected().await?
MonitorPostCheck ==
    /\ mpc = "post_check"
    /\ \E r \in {"true", "false", "Err"} :
         IF r = "Err"
         THEN Stop("Err:is_connected") /\ UNCHANGED << is_connected, cycle >>
         ELSE /\ mpc' = "store_lock"
              /\ is_connected' = (r = "true")
              /\ cycle' = [cycle EXCEPT
                             !.check = r,
                             !.up = IF r = "true" THEN @ \cup {peripherals[idx]}
                                    ELSE @]
              /\ UNCHANGED mres
    /\ UNCHANGED << ESP_PERIPHERAL, rwlock, APP_HANDLE, scanVars, history,
                    wrVars >>

\* Line 113: ESP_PERIPHERAL.write() is called.
MonitorStoreLock ==
    /\ mpc = "store_lock"
    /\ rwlock' = Request(rwlock, Monitor, "write")
    /\ mpc' = "store"
    /\ UNCHANGED << ESP_PERIPHERAL, APP_HANDLE, mres, scanVars, is_connected,
                    cycle, history, wrVars >>

\* Mutant of MonitorStore: the handle is not written to the slot.
MonitorStoreSkipped ==
    /\ mpc = "store"
    /\ HoldsWrite(Monitor)
    /\ rwlock' = Release(rwlock, Monitor)
    /\ IF is_connected
       THEN mpc' = "scan_emit_true" /\ UNCHANGED idx
       ELSE mpc' = "for" /\ idx' = idx + 1
    /\ UNCHANGED << ESP_PERIPHERAL, APP_HANDLE, mres, peripherals, found,
                    properties, is_connected, cycle, history, wrVars >>

\* Mutant of MonitorStore: the for loop is left after a handle was stored
\* whose post-attempt flag is false.
MonitorStoreThenBreak ==
    /\ mpc = "store"
    /\ HoldsWrite(Monitor)
    /\ ESP_PERIPHERAL' = peripherals[idx]
    /\ rwlock' = Release(rwlock, Monitor)
    /\ cycle' = [cycle EXCEPT !.stored = Append(@, peripherals[idx])]
    /\ IF is_connected
       THEN mpc' = "scan_emit_true" /\ UNCHANGED idx
       ELSE mpc' = "for" /\ idx' = Len(peripherals) + 1
    /\ UNCHANGED << APP_HANDLE, mres, peripherals, found, properties,
                    is_connected, history, wrVars >>

\* Lines 113-115: the slot is set to Some(peripheral.clone()), the guard is
\* dropped; then `if is_connected`.
MonitorStore ==
    /\ mpc = "store"
    /\ HoldsWrite(Monitor)
    /\ ESP_PERIPHERAL' = peripherals[idx]
    /\ rwlock' = Release(rwlock, Monitor)
    /\ cycle' = [cycle EXCEPT !.stored = Append(@, peripherals[idx])]
    /\ IF is_connected
       THEN mpc' = "scan_emit_true" /\ UNCHANGED idx
       ELSE mpc' = "for" /\ idx' = idx + 1
    /\ UNCHANGED << APP_HANDLE, mres, peripherals, found, properties,
                    is_connected, history, wrVars >>

\* Mutant of MonitorScanEmitTrue: the event of a fresh binding is not sent.
MonitorScanEmitTrueSkipped ==
    /\ mpc = "scan_emit_true"
    /\ mpc' = "for"
    /\ idx' = idx + 1
    /\ UNCHANGED << ESP_PERIPHERAL, rwlock, APP_HANDLE, mres, peripherals, found,
                    properties, is_connected, cycle, history, wrVars >>

\* Lines 116-123: emit true for this peripheral.
MonitorScanEmitTrue ==
    /\ mpc = "scan_emit_true"
    /\ \E o \in EmitOutcomes(cycle, TRUE) :
         IF o.end = "ok"
         THEN /\ mpc' = "for"
              /\ idx' = idx + 1
              /\ cycle' = o.log
              /\ UNCHANGED mres
         ELSE /\ Stop(o.end)
              /\ UNCHANGED << idx, cycle >>
    /\ UNCHANGED << ESP_PERIPHERAL, rwlock, APP_HANDLE, peripherals, found,
                    properties, is_connected, history, wrVars >>

\* Line 128: ESP_PERIPHERAL.write() is called.
MonitorMissClearLock ==
    /\ mpc = "miss_clear_lock"
    /\ rwlock' = Request(rwlock, Monitor, "write")
    /\ mpc' = "miss_clear"
    /\ UNCHANGED << ESP_PERIPHERAL, APP_HANDLE, mres, scanVars, is_connected,
                    cycle, history, wrVars >>

\* Line 128: the slot is set to None, the guard is dropped.
MonitorMissClear ==
    /\ mpc = "miss_clear"
    /\ HoldsWrite(Monitor)
    /\ ESP_PERIPHERAL' = None
    /\ rwlock' = Release(rwlock, Monitor)
    /\ mpc' = "miss_emit_false"
    /\ UNCHANGED << APP_HANDLE, mres, scanVars, is_connected, cycle, history,
                    wrVars >>

\* Lines 130-137: emit false; the loop body ends.
MonitorMissEmitFalse ==
    /\ mpc = "miss_emit_false"
    /\ \E o \in EmitOutcomes(cycle, FALSE) :
         IF o.end = "ok"
         THEN EndCycle(o.log) /\ UNCHANGED mres
         ELSE Stop(o.end) /\ UNCHANGED << cycle, history >>
    /\ UNCHANGED << ESP_PERIPHERAL, rwlock, APP_HANDLE, scanVars, is_connected,
                    wrVars >>

\* ------------------------------------------------------- update_led_config
\* One step of a call: what was called, on what, and whether it succeeded.
Op(name, data, ok) == [op |-> name, data |-> data, ok |-> ok]

\* `return`, or the end of the function: esp_lock is dropped.
WriterReturn(w) ==
    /\ wpc' = [wpc EXCEPT ![w] = "idle"]
    /\ wres' = [wres EXCEPT ![w] = "returned"]
    /\ rwlock' = Release(rwlock, w)

\* The command is invoked with a Configuration Value (lines 144-145).
WriterCall(w) ==
    /\ wpc[w] = "idle"
    /\ mpc # "unspawned"
    /\ \E c \in LedConfigurations : led_config' = [led_config EXCEPT ![w] = c]
    /\ wpc' = [wpc EXCEPT ![w] = "lock"]
    /\ esp' = [esp EXCEPT ![w] = None]
    /\ wops' = [wops EXCEPT ![w] = << >>]
    /\ wres' = [wres EXCEPT ![w] = "none"]
    /\ UNCHANGED << ESP_PERIPHERAL, rwlock, APP_HANDLE, monVars >>

\* Line 147: ESP_PERIPHERAL.read() is called.
WriterLock(w) ==
    /\ wpc[w] = "lock"
    /\ rwlock' = Request(rwlock, w, "read")
    /\ wpc' = [wpc EXCEPT ![w] = "slot"]
    /\ UNCHANGED << ESP_PERIPHERAL, APP_HANDLE, monVars, esp, led_config, wops,
                    wres >>

\* Mutant of WriterSlot: the empty slot is not tested, discovery follows.
WriterSlotUnchecked(w) ==
    /\ wpc[w] = "slot"
    /\ HoldsRead(w)
    /\ esp' = [esp EXCEPT ![w] = ESP_PERIPHERAL]
    /\ wpc' = [wpc EXCEPT ![w] = "discover"]
    /\ UNCHANGED << ESP_PERIPHERAL, rwlock, APP_HANDLE, monVars, led_config,
                    wops, wres >>

\* Mutant of WriterSlot: the handle is cloned and the read guard dropped
\* before the discovery.
WriterSlotDropsGuard(w) ==
    /\ wpc[w] = "slot"
    /\ HoldsRead(w)
    /\ IF ESP_PERIPHERAL = None
       THEN /\ WriterReturn(w)
            /\ UNCHANGED esp
       ELSE /\ esp' = [esp EXCEPT ![w] = ESP_PERIPHERAL]
            /\ wpc' = [wpc EXCEPT ![w] = "discover"]
            /\ rwlock' = Release(rwlock, w)
            /\ UNCHANGED wres
    /\ UNCHANGED << ESP_PERIPHERAL, APP_HANDLE, monVars, led_config, wops >>

\* Lines 147-151: the read guard is obtained; let Some(esp) = .. else return.
WriterSlot(w) ==
    /\ wpc[w] = "slot"
    /\ HoldsRead(w)
    /\ IF ESP_PERIPHERAL = None
       THEN /\ WriterReturn(w)
            /\ UNCHANGED esp
       ELSE /\ esp' = [esp EXCEPT ![w] = ESP_PERIPHERAL]
            /\ wpc' = [wpc EXCEPT ![w] = "discover"]
            /\ UNCHANGED << rwlock, wres >>
    /\ UNCHANGED << ESP_PERIPHERAL, APP_HANDLE, monVars, led_config, wops >>

\* Mutant of WriterDiscover: a failed discovery also empties the slot.
WriterDiscoverDropsSlot(w) ==
    /\ wpc[w] = "discover"
    /\ \E ok \in BOOLEAN :
         /\ wops' = [wops EXCEPT
                       ![w] = Append(@, Op("discover_services", esp[w], ok))]
         /\ IF ok
            THEN /\ wpc' = [wpc EXCEPT ![w] = "characteristics"]
                 /\ UNCHANGED << ESP_PERIPHERAL, rwlock, wres >>
            ELSE /\ WriterReturn(w)
                 /\ ESP_PERIPHERAL' = None
    /\ UNCHANGED << APP_HANDLE, monVars, esp, led_config >>

\* Lines 152-155: esp.discover_services().await; on Err return.
WriterDiscover(w) ==
    /\ wpc[w] = "discover"
    /\ \E ok \in BOOLEAN :
         /\ wops' = [wops EXCEPT
                       ![w] = Append(@, Op("discover_services", esp[w], ok))]
         /\ IF ok
            THEN /\ wpc' = [wpc EXCEPT ![w] = "characteristics"]
                 /\ UNCHANGED << rwlock, wres >>
            ELSE WriterReturn(w)
    /\ UNCHANGED << ESP_PERIPHERAL, APP_HANDLE, monVars, esp, led_config >>

\* Mutant of WriterCharacteristics: a missing characteristic does not end
\* the call.
WriterCharacteristicsUnchecked(w) ==
    /\ wpc[w] = "characteristics"
    /\ \E present \in BOOLEAN :
         wops' = [wops EXCEPT
                    ![w] = Append(@, Op("characteristics", esp[w], present))]
    /\ wpc' = [wpc EXCEPT ![w] = "encode"]
    /\ UNCHANGED << ESP_PERIPHERAL, rwlock, APP_HANDLE, monVars, esp, led_config,
                    wres >>

\* Lines 157-164: esp.characteristics(), find the one with the LED uuid;
\* else return.
WriterCharacteristics(w) ==
    /\ wpc[w] = "characteristics"
    /\ \E present \in BOOLEAN :
         /\ wops' = [wops EXCEPT
                       ![w] = Append(@, Op("characteristics", esp[w], present))]
         /\ IF present
            THEN /\ wpc' = [wpc EXCEPT ![w] = "encode"]
                 /\ UNCHANGED << rwlock, wres >>
            ELSE WriterReturn(w)
    /\ UNCHANGED << ESP_PERIPHERAL, APP_HANDLE, monVars, esp, led_config >>

\* Mutant of WriterEncode: a Configuration Value that cannot be serialized
\* makes the call forget the handle in the slot.
WriterEncodeDropsSlot(w) ==
    /\ wpc[w] = "encode"
    /\ \E ok \in BOOLEAN :
         /\ wops' = [wops EXCEPT
                       ![w] = Append(@, Op("encode_to_vec", led_config[w], ok))]
         /\ IF ok
            THEN /\ wpc' = [wpc EXCEPT ![w] = "write"]
                 /\ UNCHANGED << ESP_PERIPHERAL, rwlock, wres >>
            ELSE /\ WriterReturn(w)
                 /\ ESP_PERIPHERAL' = None
    /\ UNCHANGED << APP_HANDLE, monVars, esp, led_config >>

\* Lines 166-171: bincode::serde::encode_to_vec(..); on Err return.
WriterEncode(w) ==
    /\ wpc[w] = "encode"
    /\ \E ok \in BOOLEAN :
         /\ wops' = [wops EXCEPT
                       ![w] = Append(@, Op("encode_to_vec", led_config[w], ok))]
         /\ IF ok
            THEN /\ wpc' = [wpc EXCEPT ![w] = "write"]
                 /\ UNCHANGED << rwlock, wres >>
            ELSE WriterReturn(w)
    /\ UNCHANGED << ESP_PERIPHERAL, APP_HANDLE, monVars, esp, led_config >>

\* Mutant of WriterWrite: the panic does not drop esp_lock.
WriterWriteLeaksGuard(w) ==
    /\ wpc[w] = "write"
    /\ \E ok \in BOOLEAN :
         /\ wops' = [wops EXCEPT
                       ![w] = Append(@, Op("write",
                                 << esp[w], EncodeToVec(led_config[w]) >>, ok))]
         /\ IF ok
            THEN WriterReturn(w)
            ELSE /\ wpc' = [wpc EXCEPT ![w] = "idle"]
                 /\ wres' = [wres EXCEPT ![w] = "panicked"]
                 /\ UNCHANGED rwlock
    /\ UNCHANGED << ESP_PERIPHERAL, APP_HANDLE, monVars, esp, led_config >>

\* Lines 172-179: esp.write(char, &bytes, WithoutResponse).await.unwrap();
\* a panic unwinds the call and drops esp_lock.
WriterWrite(w) ==
    /\ wpc[w] = "write"
    /\ \E ok \in BOOLEAN :
         /\ wops' = [wops EXCEPT
                       ![w] = Append(@, Op("write",
                                 << esp[w], EncodeToVec(led_config[w]) >>, ok))]
         /\ IF ok
            THEN WriterReturn(w)
            ELSE /\ wpc' = [wpc EXCEPT ![w] = "idle"]
                 /\ wres' = [wres EXCEPT ![w] = "panicked"]
                 /\ rwlock' = Release(rwlock, w)
    /\ UNCHANGED << ESP_PERIPHERAL, APP_HANDLE, monVars, esp, led_config >>

\* ------------------------------------------------------------ specification
MonitorStep ==
    \/ MonitorPoll
    \/ MonitorLivenessLock
    \/ MonitorLiveness
    \/ MonitorBoundEmitTrue
    \/ MonitorBoundClearLock
    \/ MonitorBoundClear
    \/ MonitorBoundEmitFalse
    \/ MonitorAdapterInfo
    \/ MonitorStartScan
    \/ MonitorPeripherals
    \/ MonitorFor
    \/ MonitorProperties
    \/ MonitorIsConnected
    \/ MonitorConnect
    \/ MonitorPostCheck
    \/ MonitorStoreLock
    \/ MonitorStore
    \/ MonitorScanEmitTrue
    \/ MonitorMissClearLock
    \/ MonitorMissClear
    \/ MonitorMissEmitFalse

WriterStep(w) ==
    \/ WriterCall(w)
    \/ WriterLock(w)
    \/ WriterSlot(w)
    \/ WriterDiscover(w)
    \/ WriterCharacteristics(w)
    \/ WriterEncode(w)
    \/ WriterWrite(w)

Next ==
    \/ SetupStoreHandle
    \/ SpawnMonitor
    \/ MonitorStep
    \/ \E w \in Writers : WriterStep(w)

Spec == Init /\ [][Next]_vars

\* The steps of update_led_config after the call: each is an await or a
\* computation of a running tokio task.
WriterProgress(w) ==
    \/ WriterLock(w)
    \/ WriterSlot(w)
    \/ WriterDiscover(w)
    \/ WriterCharacteristics(w)
    \/ WriterEncode(w)
    \/ WriterWrite(w)

\* The tokio runtime keeps polling a task that can make progress and every
\* awaited I/O completes with some outcome; setup runs to its end.  Nothing
\* obliges the front end to call update_led_config.
FairSpec ==
    /\ Spec
    /\ WF_vars(SetupStoreHandle \/ SpawnMonitor)
    /\ WF_vars(MonitorStep)
    /\ \A w \in CallSlots(NumWriters) : WF_vars(WriterProgress(w))

\* The surroundings of the lock scenario: one device in range, carrying the
\* target name, and every call passing the all-off configuration.
LockScope ==
    /\ Range(peripherals) \subseteq {1}
    /\ \A w \in Writers : led_config[w] = NoConfig

LockNext == Next /\ LockScope'

\* The program with room for one more concurrent update_led_config call, in
\* the surroundings of LockScope, under the fairness of FairSpec.
LockSpec ==
    /\ InitFor(NumWriters + 1)
    /\ [][LockNext]_vars
    /\ WF_vars(SetupStoreHandle \/ SpawnMonitor)
    /\ WF_vars(MonitorStep)
    /\ \A w \in CallSlots(NumWriters + 1) : WF_vars(WriterProgress(w))

TypeOK ==
    /\ ESP_PERIPHERAL \in Peripherals \cup {None}
    /\ rwlock.readers \subseteq Writers \cup {Monitor}
    /\ rwlock.writers \subseteq {Monitor}
    /\ APP_HANDLE \in BOOLEAN
    /\ peripherals \in ScanResults
    /\ idx \in 0..(Len(peripherals) + 1)
    /\ found \in BOOLEAN
    /\ is_connected \in BOOLEAN
    /\ \A w \in Writers : esp[w] \in Peripherals \cup {None}
    /\ history.last \in {"none", "live", "dead", "miss", "bind", "bind_stale", "scan"}
    \* the Monitor's own reads of the slot never wait: nobody else writes
    /\ mpc \in {"sleep", "liveness"} => (rwlock.writers = {} /\ rwlock.queue = << >>)

\* ------------------------------------------------------ reading the logs
\* The loop body has run to its end and the next iteration has not started.
CycleEnded == mpc = "sleep" /\ cycle.start # "none"

\* The kind of the cycle that has just ended.
Kind == CycleKind(cycle, peripherals)

\* A cycle is under way (or was, when the task stopped).
InCycle == mpc \notin {"unspawned", "sleep"}

MatchedPeripherals == { peripherals[i] : i \in Matches(peripherals) }

OpNames(ops) == [i \in 1..Len(ops) |-> ops[i].op]

WriterOrder == << "discover_services", "characteristics", "encode_to_vec", "write" >>

ListedErrors ==
    { "Err:adapter_info", "Err:peripherals", "Err:properties", "Err:is_connected" }

\* ------------------------------------------------------------------ claims

\* C1: at the end of every poll cycle the slot is non-empty if and only if
\* the most recent check of that cycle (the liveness check of a BOUND cycle,
\* the post-attempt connection flag of an UNBOUND cycle) found the
\* target-named peripheral connected.
C1_SlotIffLastCheckConnected ==
    CycleEnded => ((ESP_PERIPHERAL # None) <=> (cycle.check = "true"))

\* C2: a BOUND cycle whose liveness check returns not connected clears the
\* slot and emits false exactly once before the cycle ends, and the cycle
\* after it starts UNBOUND.
C2_DisconnectClearsAndEmitsFalseOnce ==
    /\ (CycleEnded /\ cycle.start = "BOUND" /\ cycle.check = "false")
          => (ESP_PERIPHERAL = None /\ cycle.emitted = << FALSE >>)
    /\ (InCycle /\ history.last = "dead") => cycle.start = "UNBOUND"

C2_Witness ==
    /\ history.last = "dead"
    /\ mpc = "adapter_info"
    /\ cycle.start = "UNBOUND"
    /\ ESP_PERIPHERAL = None

\* C3 (as stated): every cycle that runs to its end has emitted at least one
\* connection-status event, whatever the scan found and whatever the outcome
\* of a connect attempt.
C3_EveryCycleEmits ==
    CycleEnded => cycle.emitted # << >>

\* C3 (amended): a cycle that runs to its end has emitted at least one event
\* exactly when it started BOUND, or its scan enumerated no target-named
\* peripheral, or the post-attempt flag of some target-named peripheral was
\* true; a scan cycle whose matches all failed to connect or reported not
\* connected emits nothing.
C3_CycleEmitsUnlessNoMatchIsUp ==
    CycleEnded =>
        ((cycle.emitted # << >>) <=>
            \/ cycle.start = "BOUND"
            \/ MatchedPeripherals = {}
            \/ cycle.up # {})

C3_Witness ==
    /\ CycleEnded
    /\ cycle.start = "UNBOUND"
    /\ cycle.failed # {}
    /\ cycle.up # {}
    /\ cycle.emitted = << TRUE >>

\* C4: a call that finds the slot empty performs no discovery, no
\* characteristic lookup and no write, and returns normally, whatever the
\* Configuration Value and wherever the Monitor is.
C4_EmptySlotIsSilentNoOp ==
    \A w \in Writers :
        esp[w] = None =>
            /\ wops[w] = << >>
            /\ wres[w] \in {"none", "returned"}
            /\ wpc[w] \in {"idle", "lock", "slot"}

C4_Witness ==
    \E w \in Writers :
        /\ wres[w] = "returned"
        /\ esp[w] = None
        /\ led_config[w].enabled
        /\ mpc = "post_check"

\* C5: a call evaluates slot, discovery, characteristic, serialization in
\* that order; the first that fails ends the call normally with nothing
\* after it evaluated, and one write is issued only when all four held.
C5_PreconditionsInOrder ==
    \A w \in Writers :
        LET ops == wops[w]
            n == Len(ops)
        IN  /\ n <= Len(WriterOrder)
            /\ OpNames(ops) = SubSeq(WriterOrder, 1, n)
            /\ \A i \in 1..(n - 1) : ops[i].ok
            /\ n > 0 => esp[w] # None
            /\ (n > 0 /\ ~ops[n].ok) =>
                  /\ wpc[w] = "idle"
                  /\ wres[w] = IF ops[n].op = "write" THEN "panicked"
                               ELSE "returned"
            /\ wres[w] = "returned" =>
                  (n = Len(WriterOrder) <=> (n > 0 /\ ops[n].ok))

C5_Witness ==
    \E w \in Writers :
        /\ wres[w] = "returned"
        /\ Len(wops[w]) = 2
        /\ wops[w][1].ok
        /\ ~wops[w][2].ok

\* C6: the slot changes only in a step of the Monitor that takes no part of
\* a Writer call: set to a target-named peripheral at the store, cleared
\* after a liveness check that returned not connected or after a scan that
\* found no match.
C6_OnlyMonitorMutatesSlot ==
    [][ESP_PERIPHERAL' # ESP_PERIPHERAL =>
          /\ wrVars' = wrVars
          /\ HoldsWrite(Monitor)
          /\ \/ /\ mpc = "store"
                /\ ESP_PERIPHERAL' = peripherals[idx]
                /\ NameMatches(peripherals[idx])
             \/ /\ mpc = "bound_clear"
                /\ cycle.check = "false"
                /\ ESP_PERIPHERAL' = None
             \/ /\ mpc = "miss_clear"
                /\ ~found
                /\ ESP_PERIPHERAL' = None]_vars

C6_Witness ==
    \E w \in Writers :
        /\ wres[w] = "panicked"
        /\ esp[w] # None
        /\ ESP_PERIPHERAL = esp[w]

\* C7: an UNBOUND cycle whose scan enumerates no target-named peripheral
\* ends with the slot empty and exactly one event, false; so consecutive
\* such cycles each emit one false and no true.
C7_ScanMissEmitsOneFalse ==
    (CycleEnded /\ cycle.start = "UNBOUND" /\ MatchedPeripherals = {})
        => /\ ESP_PERIPHERAL = None
           /\ cycle.emitted = << FALSE >>

C7_Witness ==
    /\ CycleEnded
    /\ Kind = "miss"
    /\ history.last = "miss"
    /\ peripherals # << >>
    /\ ESP_PERIPHERAL = None

\* C8 (as stated): a scan from an empty slot that enumerates exactly one
\* target-named peripheral, not connected, whose connect succeeds, ends with
\* the slot holding that handle and true emitted.
C8_ConnectSuccessBindsAndEmitsTrue ==
    (CycleEnded /\ Kind \in {"bind", "bind_stale"})
        => /\ { ESP_PERIPHERAL } = MatchedPeripherals
           /\ cycle.emitted = << TRUE >>

\* C8 (amended): such a scan ends with the slot holding that handle and
\* true emitted when the connection flag read after the connect is true;
\* if the next cycle's liveness check returns connected, true is emitted
\* again with no scan and the slot kept; if the following cycle's liveness
\* check returns not connected, the slot is cleared, false is emitted and
\* the cycle after it starts UNBOUND.
C8_BindLiveDeadScenario ==
    /\ (CycleEnded /\ Kind = "bind")
          => /\ { ESP_PERIPHERAL } = MatchedPeripherals
             /\ cycle.emitted = << TRUE >>
    /\ (CycleEnded /\ Kind = "live" /\ history.last = "bind")
          => /\ ESP_PERIPHERAL # None
             /\ NameMatches(ESP_PERIPHERAL)
             /\ cycle.emitted = << TRUE >>
             /\ ~cycle.scanned
             /\ peripherals = << >>
    /\ (CycleEnded /\ Kind = "dead" /\ history = [last |-> "live", before |-> "bind"])
          => /\ ESP_PERIPHERAL = None
             /\ cycle.emitted = << FALSE >>
    /\ (InCycle /\ history = [last |-> "dead", before |-> "live"])
          => cycle.start = "UNBOUND"

C8_Witness ==
    /\ CycleEnded
    /\ Kind = "dead"
    /\ history = [last |-> "live", before |-> "bind"]
    /\ cycle.emitted = << FALSE >>
    /\ ESP_PERIPHERAL = None

\* C9: a failed connect neither stops the task nor ends the cycle: the step
\* that fails goes on to the next element of the scan with the slot
\* untouched, and the peripheral it failed on is not stored in that cycle.
C9_FailedConnectIsSkipped ==
    /\ [](\A p \in cycle.failed :
             /\ \A i \in 1..Len(cycle.stored) : cycle.stored[i] # p
             /\ ESP_PERIPHERAL # p)
    /\ [][~(cycle'.failed \subseteq cycle.failed) =>
             /\ mpc' = "for"
             /\ idx' = idx + 1
             /\ mres' = "running"
             /\ peripherals' = peripherals
             /\ ESP_PERIPHERAL' = ESP_PERIPHERAL]_vars

C9_Witness ==
    /\ CycleEnded
    /\ Len(peripherals) > 1
    /\ peripherals[1] \in cycle.failed
    /\ ESP_PERIPHERAL = peripherals[2]
    /\ history.last # "none"

\* C10: an Err of adapter_info, peripherals, properties or is_connected ends
\* ble_monitoring with that Err; once ended it starts no cycle, emits no
\* event and never changes the slot.
C10_ListedErrorsEndTheLoop ==
    [][/\ (mres' \in ListedErrors /\ mres' # mres) => mpc' = "stopped"
       /\ mpc = "stopped" =>
             /\ mpc' = "stopped"
             /\ mres' = mres
             /\ cycle' = cycle
             /\ history' = history
             /\ ESP_PERIPHERAL' = ESP_PERIPHERAL]_vars

C10_Witness ==
    /\ mpc = "stopped"
    /\ mres = "Err:properties"
    /\ ESP_PERIPHERAL # None
    /\ \E w \in Writers : wres[w] = "returned" /\ Len(wops[w]) = 4

\* Positions of ble_monitoring inside the `if ESP_PERIPHERAL...is_some()`
\* branch (lines 46-76), and between two iterations or after the end.
BoundPositions ==
    { "liveness", "liveness_wait", "bound_emit_true", "bound_clear_lock",
      "bound_clear", "bound_emit_false", "sleep", "stopped" }

\* C12: a cycle that starts with a non-empty slot starts no scan, enumerates
\* nothing and connects to nothing; when the bound handle reports connected
\* the slot is kept and the cycle emits exactly one event, true, so
\* consecutive such cycles each emit one true and never a false.
C12_BoundCycleOnlyChecksLiveness ==
    cycle.start = "BOUND" =>
        /\ mpc \in BoundPositions
        /\ ~cycle.scanned
        /\ peripherals = << >>
        /\ cycle.tried = {}
        /\ cycle.stored = << >>
        /\ cycle.check # "false" => ESP_PERIPHERAL # None
        /\ cycle.check = "true" =>
              /\ \A i \in 1..Len(cycle.emitted) : cycle.emitted[i]
              /\ CycleEnded => cycle.emitted = << TRUE >>

C12_Witness ==
    /\ CycleEnded
    /\ Kind = "live"
    /\ history = [last |-> "live", before |-> "live"]
    /\ cycle.emitted = << TRUE >>
    /\ ESP_PERIPHERAL # None

\* The peripheral advertises exactly the target name.
ExactlyNamed(p) == AdvertisedName(p) = "esp-bluedroid LED Example"

\* Positions of ble_monitoring inside `if local_name == ESP_BLE_NAME`.
MatchPositions ==
    { "connect", "post_check", "store_lock", "store", "scan_emit_true" }

\* C13: connect() is called on, and the slot is set to, only a peripheral
\* whose advertised name equals the target name exactly; a name that differs
\* in case or by a trailing space, or no name, is never connected or stored
\* and does not keep a scan from counting as a miss.
C13_OnlyExactNameIsBound ==
    /\ \A p \in cycle.tried : ExactlyNamed(p)
    /\ \A i \in 1..Len(cycle.stored) : ExactlyNamed(cycle.stored[i])
    /\ ESP_PERIPHERAL # None => ExactlyNamed(ESP_PERIPHERAL)
    /\ mpc \in MatchPositions => ExactlyNamed(peripherals[idx])
    /\ mpc \in {"miss_clear_lock", "miss_clear", "miss_emit_false"}
          => \A i \in 1..Len(peripherals) : ~ExactlyNamed(peripherals[i])
    /\ (CycleEnded /\ cycle.start = "UNBOUND")
          => (found <=> \E i \in 1..Len(peripherals) : ExactlyNamed(peripherals[i]))

C13_Witness ==
    /\ CycleEnded
    /\ { AdvertisedName(peripherals[i]) : i \in 1..Len(peripherals) }
          = { "ESP-Bluedroid LED Example", "esp-bluedroid LED Example " }
    /\ cycle.emitted = << FALSE >>
    /\ ~found
    /\ ESP_PERIPHERAL = None

Queued(p) == \E i \in 1..Len(rwlock.queue) : rwlock.queue[i].proc = p

\* C15: a call panics only on an Err of the write issued after all four
\* preconditions held; the panicking step changes neither the slot nor the
\* Monitor and drops the call's read guard; afterwards the command can be
\* invoked again, and with no call under way a running Monitor can always
\* take its next step.
C15_WritePanicIsLocal ==
    /\ [](\A w \in Writers :
             /\ wres[w] = "panicked" =>
                   /\ Len(wops[w]) = Len(WriterOrder)
                   /\ wops[w][Len(WriterOrder)].op = "write"
                   /\ ~wops[w][Len(WriterOrder)].ok
                   /\ wpc[w] = "idle"
                   /\ ENABLED WriterCall(w)
             /\ wpc[w] = "idle" => (~HoldsRead(w) /\ ~Queued(w)))
    /\ []((mres = "running" /\ mpc # "unspawned"
             /\ \A w \in Writers : wpc[w] = "idle") => ENABLED MonitorStep)
    /\ [][\A w \in Writers :
             (wres'[w] = "panicked" /\ wres[w] # "panicked") =>
                 /\ ESP_PERIPHERAL' = ESP_PERIPHERAL
                 /\ monVars' = monVars
                 /\ HoldsRead(w)
                 /\ w \notin rwlock'.readers]_vars

C15_Witness ==
    \E w \in Writers :
        /\ wres[w] = "panicked"
        /\ esp[w] # None
        /\ ESP_PERIPHERAL = None
        /\ mpc = "bound_emit_false"
        /\ mres = "running"

\* Positions of update_led_config between its slot read and its return.
HandlePositions == { "discover", "characteristics", "encode", "write" }

\* C16: from its slot read to the return of its write a call holds the read
\* guard, so the slot keeps naming the handle the call works on: the write
\* is issued to, and completes on, the handle the slot holds.
C16_SlotNamesTheWrittenHandle ==
    /\ [](\A w \in Writers :
             wpc[w] \in HandlePositions =>
                 /\ HoldsRead(w)
                 /\ esp[w] # None
                 /\ ESP_PERIPHERAL = esp[w])
    /\ [][\A w \in Writers :
             Len(wops'[w]) > Len(wops[w]) =>
                 /\ wops'[w][Len(wops'[w])].op = "write" =>
                       wops'[w][Len(wops'[w])].data[1] = ESP_PERIPHERAL
                 /\ ESP_PERIPHERAL # None
                 /\ ESP_PERIPHERAL' = ESP_PERIPHERAL]_vars

C16_Witness ==
    \E w \in Writers :
        /\ wpc[w] = "write"
        /\ mpc = "bound_clear"
        /\ Queued(Monitor)
        /\ ESP_PERIPHERAL = esp[w]

\* C17: between the is_some() test of line 45 and the unwrap of line 52,
\* each under its own read guard, the slot stays non-empty whatever the
\* Writer calls do, so the unwrap never panics; the liveness check then runs
\* under the Monitor's read guard.
C17_SlotStillBoundAtUnwrap ==
    /\ mpc \in {"liveness", "liveness_wait"} => ESP_PERIPHERAL # None
    /\ mpc = "liveness" => ~HoldsRead(Monitor)
    /\ mpc = "liveness_wait" => HoldsRead(Monitor)
    /\ mres # "panic:slot_unwrap"

C17_Witness ==
    \E w \in Writers :
        /\ mpc = "liveness_wait"
        /\ wpc[w] = "write"
        /\ rwlock.readers = {Monitor, w}
        /\ wres[w] = "none"

\* C18: in the step that emits an event the slot is non-empty when the event
\* is true and empty when it is false, and the step leaves the slot as it is.
C18_EventAgreesWithSlot ==
    [][Len(cycle'.emitted) > Len(cycle.emitted) =>
          /\ cycle'.emitted[Len(cycle'.emitted)] <=> (ESP_PERIPHERAL # None)
          /\ ESP_PERIPHERAL' = ESP_PERIPHERAL]_vars

C18_Witness ==
    \E w \in Writers :
        /\ cycle.emitted = << TRUE, TRUE >>
        /\ cycle.stored = << 2, 1 >>
        /\ ESP_PERIPHERAL = 1
        /\ wpc[w] = "discover"
        /\ esp[w] = 1

\* The enumerated peripherals that carry the target name and whose connect()
\* did not fail in this cycle, in enumeration order.
BoundInOrder ==
    SelectSeq(peripherals,
              LAMBDA p : NameMatches(p) /\ p \notin cycle.failed)

\* C19: a scan cycle that enumerated matches has, at its end, stored every
\* match whose connect did not fail, in enumeration order, emitted one true
\* per match whose post-attempt flag was true and nothing else, and leaves
\* the slot holding the last stored match.
C19_EveryMatchIsProcessedInOrder ==
    (CycleEnded /\ cycle.start = "UNBOUND" /\ Matches(peripherals) # {}) =>
        /\ cycle.tried \subseteq MatchedPeripherals
        /\ cycle.failed \subseteq cycle.tried
        /\ cycle.stored = BoundInOrder
        /\ cycle.up \subseteq Range(BoundInOrder)
        /\ Len(cycle.emitted) = Cardinality(cycle.up)
        /\ \A i \in 1..Len(cycle.emitted) : cycle.emitted[i]
        /\ BoundInOrder # << >> =>
               ESP_PERIPHERAL = BoundInOrder[Len(BoundInOrder)]

C19_Witness ==
    /\ CycleEnded
    /\ peripherals = << 1, 2 >>
    /\ cycle.stored = << 1, 2 >>
    /\ cycle.up = {1}
    /\ cycle.emitted = << TRUE >>
    /\ ESP_PERIPHERAL = 2

\* C20: once the Monitor is spawned APP_HANDLE is stored, it is never
\* cleared, every emit step finds it, and the Monitor never ends on the
\* unwrap of a missing handle.
C20_HandleStoredBeforeSpawn ==
    /\ [](mpc # "unspawned" => APP_HANDLE)
    /\ [](mres # "panic:app_handle_unwrap")
    /\ [][APP_HANDLE => APP_HANDLE']_vars
    /\ [][Len(cycle'.emitted) > Len(cycle.emitted) => APP_HANDLE]_vars

C20_Witness ==
    /\ APP_HANDLE
    /\ mpc = "stopped"
    /\ mres = "Err:emit"
    /\ cycle.emitted = << TRUE >>
    /\ cycle.start = "UNBOUND"

\* Every way ble_monitoring ends: the `?` of lines 54/79/86/90/91/108 and of
\* the emits, the expect of line 83 and the unwrap of line 93.
TerminationCauses ==
    ListedErrors \cup { "Err:emit", "panic:start_scan", "panic:properties_unwrap" }

\* C11 as stated: whenever the Monitor has stopped, an error of adapter_info,
\* peripherals, properties or is_connected occurred.
C11_StopsOnlyOnListedErrors ==
    mpc = "stopped" => mres \in ListedErrors

\* C11 amended: the Monitor stops only on one of TerminationCauses, and
\* unless it stops it always eventually starts another cycle.
C11_StopsOnlyOnTerminationCauses ==
    /\ [](mpc = "stopped" <=> mres \in TerminationCauses)
    /\ []<>(mpc \in {"liveness", "adapter_info", "stopped"})

C11_Witness ==
    /\ mpc = "stopped"
    /\ mres = "panic:properties_unwrap"
    /\ history.last = "dead"
    /\ cycle.failed = {1}
    /\ \E w \in Writers : wres[w] = "panicked"

\* The Monitor has called ESP_PERIPHERAL.write() and not yet dropped the guard.
WriteRequested == mpc \in {"bound_clear", "store", "miss_clear"}

\* C14: a Writer call never holds or requests the write lock and holds the
\* read lock only from its lock request to its return; whenever the Monitor
\* has requested the write lock it eventually holds it, also with Writer
\* calls arriving while it waits.
C14_MonitorObtainsWriteLock ==
    /\ [](\A w \in Writers :
            /\ ~HoldsWrite(w)
            /\ \A i \in 1..Len(rwlock.queue) :
                  rwlock.queue[i].proc = w => rwlock.queue[i].mode = "read"
            /\ HoldsRead(w) => wpc[w] \in HandlePositions \cup {"slot"})
    /\ (WriteRequested /\ ~HoldsWrite(Monitor)) ~> HoldsWrite(Monitor)

C14_Witness ==
    \E w1, w2 \in Writers :
        /\ w1 # w2
        /\ mpc = "bound_clear"
        /\ wpc[w1] = "write"
        /\ rwlock.readers = {w1}
        /\ rwlock.queue = << [proc |-> Monitor, mode |-> "write"],
                             [proc |-> w2, mode |-> "read"] >>

====
